---- MODULE Spec2Model ----
(***************************************************************************)
(* A model of telegram_checker.py: TelegramChecker.run and the steps it    *)
(* sequences inside one client session (fetch_posts, filter, save_posts,   *)
(* fetch_comments, save_comments).  The remote side (group resolution,     *)
(* message streams, reply streams, their errors) is the environment and is *)
(* chosen nondeterministically, one delivered message at a time.           *)
(*                                                                         *)
(* Encodings.  An Optional value is a sequence of length at most one:      *)
(* <<>> is Python's None, <<v>> is the value v.  A text is a sequence of   *)
(* one-character strings.  A datetime is a number of hours: msg.date is an *)
(* hour count in UTC, a datetime in self.tz is an hour count on the Kyiv   *)
(* wall clock.                                                             *)
(***************************************************************************)
EXTENDS Integers, Sequences, FiniteSets, TLC

\* ------------------------------------------------------------------ bounds
MaxDelivered == 3   \* messages and replies delivered by the streams in one run
MaxWindow == 2      \* largest configured time_filter (hours)

\* ------------------------------------------------------- program constants
KyivOffset == 2     \* ZoneInfo("Europe/Kyiv"), standard time: UTC+2
HoursPerDay == 24

\* ------------------------------------------------------------ configuration
groups == <<"a", "b">>
keywords == << <<"u">> >>

\* what get_entity returns for a group that resolves: "a" has a public
\* username, "b" has none
Entity(g) == [id |-> g, username |-> IF g = "a" THEN <<"a">> ELSE <<>>]

None == <<>>
Some(v) == <<v>>

\* the current instant (UTC hours) a run reads: 02:00 Kyiv time on day 1
NowChoices == {24}
Windows == 0..MaxWindow

\* ------------------------------------------------------------------- texts
\* str.lower() on one character
LowerChar(c) == IF c = "U" THEN "u" ELSE c

\* str.lower()
LowerStr(s) == [i \in 1..Len(s) |-> LowerChar(s[i])]

\* k in s (substring containment)
Contains(s, k) ==
    \E i \in 0..(Len(s) - Len(k)) : \A j \in 1..Len(k) : s[i + j] = k[j]

\* post.text and any(keyword.lower() in post.text.lower() for keyword in keywords)
MatchesKeywords(text) ==
    /\ text # None
    /\ text[1] # <<>>
    /\ \E n \in 1..Len(keywords) : Contains(LowerStr(text[1]), LowerStr(keywords[n]))

\* -------------------------------------------------------------------- time
\* date.astimezone(self.tz): UTC hours to Kyiv wall-clock hours
AsTimezone(d) == d + KyivOffset

\* now.replace(hour=0, minute=0, second=0, microsecond=0)
ReplaceMidnight(t) == (t \div HoursPerDay) * HoursPerDay

\* _get_time_filter, with datetime.now(self.tz) = AsTimezone(nowUtc)
GetTimeFilterAhead(nowUtc, tf) ==
    IF tf = 0
    THEN ReplaceMidnight(AsTimezone(nowUtc))
    ELSE AsTimezone(nowUtc) + tf

GetTimeFilter(nowUtc, tf) ==
    IF tf = 0
    THEN ReplaceMidnight(AsTimezone(nowUtc))
    ELSE AsTimezone(nowUtc) - tf

\* ---------------------------------------------------------------- messages
Msg(id, date, reply_to, text, replies) ==
    [id |-> id, date |-> date, reply_to_msg_id |-> reply_to, text |-> text, replies |-> replies]

\* the records iter_messages(entity) can deliver as the message with this id:
\* top-level messages 0, 1 and 3 hours old, with and without a keyword, one
\* without text and without reply support, and one reply to message 1
GroupMsgChoices(id, nowUtc) ==
    { Msg(id, nowUtc,     None,    Some(<<"x", "U">>), Some(0)),
      Msg(id, nowUtc,     None,    Some(<<"x">>),      Some(0)),
      Msg(id, nowUtc,     Some(1), Some(<<"u">>),      None),
      Msg(id, nowUtc - 1, None,    Some(<<"u", "x">>), Some(0)),
      Msg(id, nowUtc - 1, None,    None,               None),
      Msg(id, nowUtc - 3, None,    Some(<<"U">>),      Some(0)) }

\* the records iter_messages(entity, reply_to=post.id) can deliver
ReplyChoices(id, nowUtc, post) ==
    { Msg(id, nowUtc,     Some(post.id), Some(<<"U">>), None),
      Msg(id, nowUtc,     Some(post.id), Some(<<"x">>), None),
      Msg(id, nowUtc - 1, Some(post.id), Some(<<"x", "u">>), None) }

\* ----------------------------------------------------------------- sorting
\* list.sort(key=lambda x: x[1].date) is a stable insertion by key: an item
\* goes after every item whose date is not later than its own
InsertByDateUnstable(sorted, x) ==
    LET before == {i \in 1..Len(sorted) : sorted[i].msg.date < x.msg.date}
        n == Cardinality(before)
    IN  SubSeq(sorted, 1, n) \o <<x>> \o SubSeq(sorted, n + 1, Len(sorted))

InsertByDate(sorted, x) ==
    LET before == {i \in 1..Len(sorted) : sorted[i].msg.date <= x.msg.date}
        n == Cardinality(before)
    IN  SubSeq(sorted, 1, n) \o <<x>> \o SubSeq(sorted, n + 1, Len(sorted))

RECURSIVE SortByDate(_)
SortByDate(s) ==
    IF s = <<>> THEN <<>>
    ELSE InsertByDate(SortByDate(SubSeq(s, 1, Len(s) - 1)), s[Len(s)])

\* --------------------------------------------------------------- filtering
\* filter_posts_by_keywords: a new list of the posts whose text matches
RECURSIVE FilterByKeywords(_)
FilterByKeywords(s) ==
    IF s = <<>> THEN <<>>
    ELSE LET rest == FilterByKeywords(SubSeq(s, 1, Len(s) - 1))
             x == s[Len(s)]
         IN  IF MatchesKeywords(x.msg.text) THEN Append(rest, x) ELSE rest

\* ---------------------------------------------------------------- digests
\* the link of a digest entry
PostLink(entity, post) ==
    IF entity.username # None
    THEN <<"https://t.me/", entity.username[1], post.id>>
    ELSE <<"No public link">>

CommentLink(entity, post, comment) ==
    IF entity.username # None
    THEN <<"https://t.me/", entity.username[1], post.id, "?comment=", comment.id>>
    ELSE <<"No public link">>

\* one block of saved_posts.md
PostEntry(x) ==
    [group |-> x.group_username, time |-> AsTimezone(x.msg.date), id |-> x.msg.id,
     link |-> PostLink(x.entity, x.msg)]

\* one block of saved_comments.md
CommentEntry(x) ==
    [group |-> x.group_username, time |-> AsTimezone(x.msg.date), id |-> x.msg.id,
     post |-> x.post.id, link |-> CommentLink(x.entity, x.post, x.msg)]

\* comment filter at the end of fetch_comments: a new list of the replies
\* whose text matches
RECURSIVE FilterComments(_)
FilterComments(s) ==
    IF s = <<>> THEN <<>>
    ELSE LET rest == FilterComments(SubSeq(s, 1, Len(s) - 1))
             x == s[Len(s)]
         IN  IF MatchesKeywords(x.msg.text) THEN Append(rest, x) ELSE rest

\* ------------------------------------------------------------------- state
VARIABLES
    now,                 \* datetime.now, UTC hours, fixed for the run
    time_filter,         \* self.time_filter
    pc,                  \* where run is
    session,             \* the TelegramClient session: "unopened", "open", "closed"
    exc,                 \* the exception that left run, "none" if none did
    time_threshold,      \* fetch_posts: time_threshold (0 until computed)
    gi,                  \* fetch_posts: index of group_username in self.groups
    resolved,            \* indexes of the groups get_entity resolved
    unresolved,          \* indexes of the groups get_entity failed for
    delivered,           \* per group index, the messages its stream delivered so far
    posts,               \* fetch_posts: posts
    all_posts,           \* run: all_posts
    posts_with_keywords, \* run: posts_with_keywords
    saved_posts_md,      \* saved_posts.md: None until written, Some(entries) after
    pidx,                \* fetch_comments: index of the post in posts
    opened,              \* indexes of the posts whose reply stream was opened
    invalid,             \* indexes of the posts whose reply stream raised MsgIdInvalidError
    comments,            \* fetch_comments: comments
    filtered_comments,   \* run: comments
    saved_comments_md    \* saved_comments.md: None until written, Some(entries) after

vars == <<now, time_filter, pc, session, exc, time_threshold, gi, resolved, unresolved,
          delivered, posts, all_posts, posts_with_keywords, saved_posts_md, pidx, opened,
          invalid, comments, filtered_comments, saved_comments_md>>

fetchVars == <<time_threshold, gi, resolved, unresolved, delivered, posts>>
postVars == <<all_posts, posts_with_keywords, saved_posts_md>>
commentVars == <<pidx, opened, invalid, comments, filtered_comments, saved_comments_md>>
configVars == <<now, time_filter>>

RECURSIVE SumLen(_, _)
SumLen(f, n) == IF n = 0 THEN 0 ELSE Len(f[n]) + SumLen(f, n - 1)

\* how many messages and replies the remote side has delivered
NumDelivered == SumLen(delivered, Len(groups)) + Len(comments)

Init ==
    /\ now \in NowChoices
    /\ time_filter \in Windows
    /\ pc = "start"
    /\ session = "unopened"
    /\ exc = "none"
    /\ time_threshold = 0
    /\ gi = 1
    /\ resolved = {}
    /\ unresolved = {}
    /\ delivered = [i \in 1..Len(groups) |-> <<>>]
    /\ posts = <<>>
    /\ all_posts = <<>>
    /\ posts_with_keywords = <<>>
    /\ saved_posts_md = None
    /\ pidx = 1
    /\ opened = {}
    /\ invalid = {}
    /\ comments = <<>>
    /\ filtered_comments = <<>>
    /\ saved_comments_md = None

\* ----------------------------------------------------------------- session
\* TelegramClient.__aexit__: the session is torn down
AExitLeak == session' = session

AExit == session' = "closed"

\* an exception leaves the body of "async with": __aexit__ runs, then the
\* exception leaves run
Propagate(e) ==
    /\ AExit
    /\ exc' = e
    /\ pc' = "raised"

\* async with TelegramClient(...) as client: __aenter__ starts the session or
\* raises
Enter ==
    /\ pc = "start"
    /\ \E ok \in BOOLEAN :
        IF ok
        THEN /\ session' = "open"
             /\ pc' = "fetch_posts"
             /\ exc' = exc
        ELSE /\ session' = session
             /\ pc' = "raised"
             /\ exc' = "SessionAuthError"
    /\ UNCHANGED <<configVars, fetchVars, postVars, commentVars>>

\* ------------------------------------------------------------- fetch_posts
\* fetch_posts up to the loop over self.groups
FetchPostsBegin ==
    /\ pc = "fetch_posts"
    /\ time_threshold' = GetTimeFilter(now, time_filter)
    /\ posts' = <<>>
    /\ gi' = 1
    /\ pc' = "resolve"
    /\ UNCHANGED <<configVars, session, exc, resolved, unresolved, delivered, postVars,
                   commentVars>>

\* await client.get_entity(group_username) returns: the stream is opened
ResolveOk ==
    /\ pc = "resolve"
    /\ gi <= Len(groups)
    /\ resolved' = resolved \cup {gi}
    /\ pc' = "stream"
    /\ UNCHANGED <<configVars, session, exc, time_threshold, gi, unresolved, delivered, posts,
                   postVars, commentVars>>

\* what "except Exception: ... continue" does with the loop
ResolveFailAborts ==
    /\ exc' = "GroupResolutionError"
    /\ pc' = "raised"
    /\ gi' = gi

ResolveFailContinue ==
    /\ exc' = exc
    /\ pc' = "resolve"
    /\ gi' = gi + 1

\* await client.get_entity(group_username) raises
ResolveFail ==
    /\ pc = "resolve"
    /\ gi <= Len(groups)
    /\ unresolved' = unresolved \cup {gi}
    /\ ResolveFailContinue
    /\ UNCHANGED <<configVars, session, time_threshold, resolved, delivered, posts,
                   postVars, commentVars>>

\* msg.date.astimezone(self.tz) < time_threshold
BeforeThreshold(msg, threshold) == AsTimezone(msg.date) < threshold

\* msg.reply_to_msg_id is None
IsTopLevelAny(msg) == TRUE

IsTopLevel(msg) == msg.reply_to_msg_id = None

\* "break" on a message before the threshold: the loop over the stream is
\* left and the loop over self.groups goes on
BreakAsContinue ==
    /\ gi' = gi
    /\ pc' = "stream"

Break ==
    /\ gi' = gi + 1
    /\ pc' = "resolve"

\* one iteration of "async for msg in client.iter_messages(entity)"
StreamMsg ==
    /\ pc = "stream"
    /\ NumDelivered < MaxDelivered
    /\ \E msg \in GroupMsgChoices(Len(delivered[gi]) + 1, now) :
        /\ delivered' = [delivered EXCEPT ![gi] = Append(@, msg)]
        /\ IF BeforeThreshold(msg, time_threshold)
           THEN /\ Break
                /\ posts' = posts
           ELSE /\ gi' = gi
                /\ pc' = "stream"
                /\ posts' = IF IsTopLevel(msg)
                            THEN Append(posts, [entity |-> Entity(groups[gi]), msg |-> msg,
                                                group_username |-> groups[gi]])
                            ELSE posts
    /\ UNCHANGED <<configVars, session, exc, time_threshold, resolved, unresolved, postVars,
                   commentVars>>

\* the message stream of the group is exhausted
StreamEnd ==
    /\ pc = "stream"
    /\ gi' = gi + 1
    /\ pc' = "resolve"
    /\ UNCHANGED <<configVars, session, exc, time_threshold, resolved, unresolved, delivered,
                   posts, postVars, commentVars>>

\* iter_messages(entity) raises: nothing in fetch_posts or run catches it
StreamError ==
    /\ pc = "stream"
    /\ Propagate("StreamError")
    /\ UNCHANGED <<configVars, fetchVars, postVars, commentVars>>

\* the loop over self.groups is over: return posts
FetchPostsReturn ==
    /\ pc = "resolve"
    /\ gi > Len(groups)
    /\ all_posts' = posts
    /\ pc' = "save_posts"
    /\ UNCHANGED <<configVars, session, exc, fetchVars, posts_with_keywords, saved_posts_md,
                   commentVars>>

\* -------------------------------------------------------------- save_posts
\* [f.write(...) for entity, post, group_username in posts]
RECURSIVE PostEntries(_)
PostEntries(s) ==
    IF s = <<>> THEN <<>>
    ELSE Append(PostEntries(SubSeq(s, 1, Len(s) - 1)), PostEntry(s[Len(s)]))

\* filter_posts_by_keywords(all_posts), then save_posts: the list is sorted
\* in place, then the file is opened and written, or open/write raise
SavePosts ==
    /\ pc = "save_posts"
    /\ posts_with_keywords' = SortByDate(FilterByKeywords(all_posts))
    /\ \E ok \in BOOLEAN :
        IF ok
        THEN /\ saved_posts_md' = Some(PostEntries(posts_with_keywords'))
             /\ pc' = "comments"
             /\ UNCHANGED <<session, exc>>
        ELSE /\ saved_posts_md' = saved_posts_md
             /\ Propagate("IOError")
    /\ UNCHANGED <<configVars, fetchVars, all_posts, commentVars>>

\* ---------------------------------------------------------- fetch_comments
\* the posts run hands to fetch_comments
CommentPostsFiltered == posts_with_keywords

CommentPosts == all_posts

\* post.replies is None: continue
SkipPost ==
    /\ pc = "comments"
    /\ pidx <= Len(CommentPosts)
    /\ CommentPosts[pidx].msg.replies = None
    /\ pidx' = pidx + 1
    /\ UNCHANGED <<configVars, pc, session, exc, fetchVars, postVars, opened, invalid,
                   comments, filtered_comments, saved_comments_md>>

\* client.iter_messages(entity, reply_to=post.id) is entered
OpenReplies ==
    /\ pc = "comments"
    /\ pidx <= Len(CommentPosts)
    /\ CommentPosts[pidx].msg.replies # None
    /\ opened' = opened \cup {pidx}
    /\ pc' = "replies"
    /\ UNCHANGED <<configVars, session, exc, fetchVars, postVars, pidx, invalid, comments,
                   filtered_comments, saved_comments_md>>

\* one iteration of "async for reply in ...": comments.append(...)
ReplyMsg ==
    /\ pc = "replies"
    /\ NumDelivered < MaxDelivered
    /\ LET p == CommentPosts[pidx]
       IN  \E reply \in ReplyChoices(Len(comments) + 1, now, p.msg) :
            comments' = Append(comments, [entity |-> p.entity, msg |-> reply,
                                          group_username |-> p.group_username,
                                          post |-> p.msg])
    /\ UNCHANGED <<configVars, pc, session, exc, fetchVars, postVars, pidx, opened, invalid,
                   filtered_comments, saved_comments_md>>

\* the reply stream of the post is exhausted
ReplyEnd ==
    /\ pc = "replies"
    /\ pidx' = pidx + 1
    /\ pc' = "comments"
    /\ UNCHANGED <<configVars, session, exc, fetchVars, postVars, opened, invalid, comments,
                   filtered_comments, saved_comments_md>>

\* what "except MsgIdInvalidError: ... continue" does with the loop
InvalidAborts ==
    /\ AExit
    /\ exc' = "MsgIdInvalidError"
    /\ pc' = "raised"
    /\ pidx' = pidx

InvalidContinue ==
    /\ UNCHANGED <<session, exc>>
    /\ pc' = "comments"
    /\ pidx' = pidx + 1

\* the reply stream raises MsgIdInvalidError, at its start or after some
\* replies: the replies already appended stay in comments
ReplyInvalid ==
    /\ pc = "replies"
    /\ invalid' = invalid \cup {pidx}
    /\ InvalidContinue
    /\ UNCHANGED <<configVars, fetchVars, postVars, opened, comments, filtered_comments,
                   saved_comments_md>>

\* the reply stream raises another error: nothing catches it
ReplyError ==
    /\ pc = "replies"
    /\ Propagate("ReplyStreamError")
    /\ UNCHANGED <<configVars, fetchVars, postVars, commentVars>>

\* ----------------------------------------------------------- save_comments
RECURSIVE CommentEntries(_)
CommentEntries(s) ==
    IF s = <<>> THEN <<>>
    ELSE Append(CommentEntries(SubSeq(s, 1, Len(s) - 1)), CommentEntry(s[Len(s)]))

\* the loop over the posts is over: fetch_comments filters and returns, then
\* save_comments sorts the list in place and writes the file, or open/write
\* raise
SaveComments ==
    /\ pc = "comments"
    /\ pidx > Len(CommentPosts)
    /\ filtered_comments' = SortByDate(FilterComments(comments))
    /\ \E ok \in BOOLEAN :
        IF ok
        THEN /\ saved_comments_md' = Some(CommentEntries(filtered_comments'))
             /\ pc' = "exit"
             /\ UNCHANGED <<session, exc>>
        ELSE /\ saved_comments_md' = saved_comments_md
             /\ Propagate("IOError")
    /\ UNCHANGED <<configVars, fetchVars, postVars, pidx, opened, invalid, comments>>

\* the body of "async with" is over: __aexit__ runs and run returns
Exit ==
    /\ pc = "exit"
    /\ AExit
    /\ pc' = "done"
    /\ UNCHANGED <<configVars, exc, fetchVars, postVars, commentVars>>

\* ------------------------------------------------------------ specification
Next ==
    \/ Enter
    \/ FetchPostsBegin
    \/ ResolveOk
    \/ ResolveFail
    \/ StreamMsg
    \/ StreamEnd
    \/ StreamError
    \/ FetchPostsReturn
    \/ SavePosts
    \/ SkipPost
    \/ OpenReplies
    \/ ReplyMsg
    \/ ReplyEnd
    \/ ReplyInvalid
    \/ ReplyError
    \/ SaveComments
    \/ Exit

Spec == Init /\ [][Next]_vars

\* ------------------------------------------------------------------ helpers
\* the items of a sequence that belong to a group, in order
OfGroup(s, g) == SelectSeq(s, LAMBDA x : x.group_username = g)

\* the messages of a sequence of items
MsgsOf(s) == [i \in 1..Len(s) |-> s[i].msg]

\* run is past fetch_posts
FetchPostsReturned == pc \in {"save_posts", "comments", "replies", "exit", "done"}
                      \/ (pc = "raised" /\ exc \in {"IOError", "ReplyStreamError",
                                                    "MsgIdInvalidError"})

\* fetch_comments returned and save_comments wrote its file
CommentsSaved == pc \in {"exit", "done"}

\* ---------------------------------------------------------------------- C1
\* C1: a group whose resolution fails is skipped and contributes no message
\* and no post; the failure never leaves fetch_posts; the loop goes on to the
\* groups after it, each of which is resolved (and streamed) or skipped in its
\* turn; and a written posts digest has entries of resolved groups only,
\* after every configured group had its turn.
C1_ResolutionFailureSkipsGroup ==
    /\ exc # "GroupResolutionError"
    /\ \A k \in unresolved :
        /\ gi > k
        /\ delivered[k] = <<>>
        /\ OfGroup(posts, groups[k]) = <<>>
    /\ \A k \in 1..Len(groups) : k < gi => k \in resolved \cup unresolved
    /\ resolved \cap unresolved = {}
    /\ saved_posts_md # None =>
        /\ resolved \cup unresolved = 1..Len(groups)
        /\ \A i \in 1..Len(saved_posts_md[1]) :
            \E k \in resolved : groups[k] = saved_posts_md[1][i].group

\* the first group failed to resolve, the second was resolved and streamed,
\* and the digest holds a post of the second
C1_Witness ==
    /\ 1 \in unresolved
    /\ 2 \in resolved
    /\ saved_posts_md # None
    /\ Len(saved_posts_md[1]) >= 1
    /\ saved_posts_md[1][1].group = groups[2]

\* ---------------------------------------------------------------------- C2
\* C2: no error at group level (resolving a group, streaming its messages) or
\* at post level (streaming a post's replies) leaves run: when run raises, the
\* exception is a session or a file error.
C2_NoPerItemErrorAborts ==
    pc = "raised" => exc \in {"SessionAuthError", "IOError"}

\* ---------------------------------------------------------------------- C3
\* the parent of a comment item is the post at index q of all_posts
IsCommentOf(c, q) ==
    /\ c.group_username = all_posts[q].group_username
    /\ c.post.id = all_posts[q].msg.id

\* the comments of a sequence whose parent is the post at index q of all_posts
CommentsOfPost(s, q) == SelectSeq(s, LAMBDA c : IsCommentOf(c, q))

\* C3: MsgIdInvalidError on the reply stream of a post never leaves
\* fetch_comments; the loop is past that post; every reply-supporting post the
\* loop has passed had its reply stream opened; and once fetch_comments has
\* returned, every reply-supporting post was opened and the matching replies
\* delivered for each post are all in the returned list.
C3_InvalidReplyTargetContinues ==
    /\ exc # "MsgIdInvalidError"
    /\ \A p \in invalid : p \in opened /\ pidx > p
    /\ \A q \in 1..Len(all_posts) :
        (q < pidx /\ all_posts[q].msg.replies # None /\ FetchPostsReturned) => q \in opened
    /\ CommentsSaved =>
        \A q \in 1..Len(all_posts) :
            /\ all_posts[q].msg.replies # None => q \in opened
            /\ \A i \in 1..Len(comments) :
                (IsCommentOf(comments[i], q) /\ MatchesKeywords(comments[i].msg.text))
                => \E j \in 1..Len(filtered_comments) : filtered_comments[j] = comments[i]

\* the stream of a post failed with MsgIdInvalidError, a later post had its
\* stream opened and a matching reply to it was returned
C3_Witness ==
    /\ pc = "done"
    /\ \E p \in invalid : \E q \in opened :
        /\ q > p
        /\ CommentsOfPost(filtered_comments, q) # <<>>

\* --------------------------------------------------------------------- C10
\* C10: once fetch_comments has returned, its result and the comments digest
\* hold no comment of a post whose reply stream raised MsgIdInvalidError.
C10_InvalidPostHasNoComments ==
    CommentsSaved =>
        \A p \in invalid :
            /\ CommentsOfPost(filtered_comments, p) = <<>>
            /\ \A i \in 1..Len(saved_comments_md[1]) :
                ~ (/\ saved_comments_md[1][i].group = all_posts[p].group_username
                   /\ saved_comments_md[1][i].post = all_posts[p].msg.id)

\* ---------------------------------------------------------------------- C4
\* C4: the posts handed to fetch_comments are the posts fetch_posts returned,
\* in the same order, whatever filtering, sorting and writing the posts
\* digest did; every reply-supporting post among them that the loop has
\* passed had its reply stream opened, whether its text matches or not; and
\* once the comments digest is written every reply-supporting post was
\* opened and every matching reply delivered is in the digest.
C4_CommentsForAllPosts ==
    FetchPostsReturned =>
        /\ all_posts = posts
        /\ \A q \in opened : q \in 1..Len(all_posts) /\ all_posts[q].msg.replies # None
        /\ \A i \in 1..Len(comments) :
            \E q \in opened : IsCommentOf(comments[i], q)
        /\ CommentsSaved =>
            /\ \A q \in 1..Len(all_posts) : all_posts[q].msg.replies # None => q \in opened
            /\ \A i \in 1..Len(comments) :
                MatchesKeywords(comments[i].msg.text) =>
                    \E j \in 1..Len(saved_comments_md[1]) :
                        /\ saved_comments_md[1][j].id = comments[i].msg.id
                        /\ saved_comments_md[1][j].post = comments[i].post.id
                        /\ saved_comments_md[1][j].group = comments[i].group_username

\* the comments digest holds a reply to a post that is not in the posts
\* digest, because the post's own text does not match
C4_Witness ==
    /\ pc = "done"
    /\ \E q \in opened :
        /\ ~ MatchesKeywords(all_posts[q].msg.text)
        /\ \A i \in 1..Len(saved_posts_md[1]) :
            ~ (/\ saved_posts_md[1][i].group = all_posts[q].group_username
               /\ saved_posts_md[1][i].id = all_posts[q].msg.id)
        /\ \E j \in 1..Len(saved_comments_md[1]) :
            /\ saved_comments_md[1][j].group = all_posts[q].group_username
            /\ saved_comments_md[1][j].post = all_posts[q].msg.id

\* ---------------------------------------------------------------------- C5
\* C5: while fetch_posts runs and when it returns: in the stream of a
\* resolved group only the last consumed message can be before the threshold
\* (nothing is consumed after the first such message); the posts retained
\* for the group are exactly the top-level messages consumed before it, in
\* delivery order; and once such a message was consumed the loop is at a
\* later group.
C5_EarlyExitAtFirstOldMessage ==
    pc \in {"resolve", "stream", "save_posts"} =>
      \A k \in 1..Len(groups) :
        LET d == delivered[k]
        IN  /\ \A i \in 1..Len(d) :
                AsTimezone(d[i].date) < time_threshold => (i = Len(d) /\ gi > k)
            /\ MsgsOf(OfGroup(posts, groups[k]))
                 = SelectSeq(d, LAMBDA m : /\ AsTimezone(m.date) >= time_threshold
                                           /\ m.reply_to_msg_id = None)
            /\ d # <<>> => k \in resolved

\* a group delivered a post and then a message before the threshold, and the
\* second group was then resolved and delivered a message
C5_Witness ==
    /\ Len(delivered[1]) = 2
    /\ AsTimezone(delivered[1][2].date) < time_threshold
    /\ OfGroup(posts, groups[1]) # <<>>
    /\ delivered[2] # <<>>

\* ---------------------------------------------------------------------- C6
\* the message a group's stream delivered under an id
DeliveredAs(g, id) ==
    LET k == CHOOSE n \in 1..Len(groups) : groups[n] = g
    IN  delivered[k][id]

\* C6: no message with reply_to_msg_id set is in the list fetch_posts builds
\* and returns, in the filtered list, or in the posts digest.
C6_TopLevelOnly ==
    /\ \A i \in 1..Len(posts) : posts[i].msg.reply_to_msg_id = None
    /\ \A i \in 1..Len(all_posts) : all_posts[i].msg.reply_to_msg_id = None
    /\ \A i \in 1..Len(posts_with_keywords) :
        posts_with_keywords[i].msg.reply_to_msg_id = None
    /\ saved_posts_md # None =>
        \A i \in 1..Len(saved_posts_md[1]) :
            DeliveredAs(saved_posts_md[1][i].group, saved_posts_md[1][i].id).reply_to_msg_id
                = None

\* a reply that is not before the threshold and matches a keyword was
\* delivered by a group's stream, and the posts digest was written
C6_Witness ==
    /\ saved_posts_md # None
    /\ \E k \in 1..Len(groups) : \E i \in 1..Len(delivered[k]) :
        /\ delivered[k][i].reply_to_msg_id # None
        /\ AsTimezone(delivered[k][i].date) >= time_threshold
        /\ MatchesKeywords(delivered[k][i].text)

\* ---------------------------------------------------------------------- C7
\* where the item a digest entry was written for stands in the input
PosIn(input, e) ==
    CHOOSE n \in 1..Len(input) :
        /\ input[n].group_username = e.group
        /\ input[n].msg.id = e.id
        /\ AsTimezone(input[n].msg.date) = e.time

\* a digest holds one entry per input item, in ascending time order, and
\* entries of equal time in their input order
SortedStable(digest, input) ==
    /\ Len(digest) = Len(input)
    /\ \A i \in 1..Len(digest) :
        \E n \in 1..Len(input) :
            /\ input[n].group_username = digest[i].group
            /\ input[n].msg.id = digest[i].id
            /\ AsTimezone(input[n].msg.date) = digest[i].time
    /\ \A i, j \in 1..Len(digest) :
        i < j =>
            /\ digest[i].time <= digest[j].time
            /\ PosIn(input, digest[i]) # PosIn(input, digest[j])
            /\ digest[i].time = digest[j].time
                => PosIn(input, digest[i]) < PosIn(input, digest[j])

\* C7: when save_posts, and when save_comments, has written its digest, the
\* digest is in ascending timestamp order, and entries of equal timestamp
\* are in the order of the writer's input (the filtered posts in
\* group-processing then delivery order; the filtered comments in collection
\* order).
C7_DigestSortedStable ==
    /\ (pc = "comments" /\ pidx = 1) =>
        /\ saved_posts_md # None
        /\ SortedStable(saved_posts_md[1], FilterByKeywords(all_posts))
    /\ pc = "exit" =>
        /\ saved_comments_md # None
        /\ SortedStable(saved_comments_md[1], FilterComments(comments))

\* both digests are written; the posts digest holds three entries, the
\* first two of equal time, and the last is the post that was first in the
\* input: the sort moved it and kept the tie in input order
C7_Witness ==
    /\ saved_posts_md # None
    /\ saved_comments_md # None
    /\ Len(saved_posts_md[1]) = 3
    /\ saved_posts_md[1][1].time = saved_posts_md[1][2].time
    /\ PosIn(FilterByKeywords(all_posts), saved_posts_md[1][3]) = 1
    /\ PosIn(FilterByKeywords(all_posts), saved_posts_md[1][1]) = 2

\* ---------------------------------------------------------------------- C8
\* C8: when run has returned or raised after the session was acquired the
\* session is closed; a session that could not be acquired was never opened;
\* and every step of fetch_posts, save_posts, fetch_comments and
\* save_comments is taken with the session open.
C8_SessionClosedOnEveryExit ==
    /\ pc = "done" => session = "closed"
    /\ (pc = "raised" /\ exc # "SessionAuthError") => session = "closed"
    /\ (pc = "raised" /\ exc = "SessionAuthError") => session = "unopened"
    /\ pc \in {"fetch_posts", "resolve", "stream", "save_posts", "comments", "replies",
               "exit"} => session = "open"
    /\ pc = "start" => session = "unopened"

\* an exception left fetch_posts and the session is closed
C8_Witness ==
    /\ pc = "raised"
    /\ exc = "StreamError"
    /\ session = "closed"

\* ---------------------------------------------------------------------- C9
\* instants around local midnight the threshold function is evaluated at
Instants == (NowChoices \cup 20..23)

\* fetch_posts has computed time_threshold
ThresholdComputed ==
    /\ pc \notin {"start", "fetch_posts"}
    /\ ~ (pc = "raised" /\ exc = "SessionAuthError")

\* C9 as stated: for windows H1 >= H2, 0 included, the threshold for H1 is
\* not later than the threshold for H2 (the run's own window against every
\* other window).
C9_ThresholdMonotoneWithZero ==
    ThresholdComputed =>
        \A H \in Windows :
            /\ H >= time_filter => GetTimeFilter(now, H) <= time_threshold
            /\ H <= time_filter => time_threshold <= GetTimeFilter(now, H)

\* hours since local midnight at an instant
SinceMidnight(nowUtc) == AsTimezone(nowUtc) - ReplaceMidnight(AsTimezone(nowUtc))

\* C9 amended: for windows H1 >= H2 >= 1 the threshold for H1 is not later
\* than the threshold for H2; the threshold for 0 is local midnight, and the
\* threshold for H >= 1 is not later than it exactly when H hours reach back
\* to local midnight.  Where fetch_posts is about to read the clock, the
\* ordering is checked for every instant it may read.
C9_ThresholdMonotonePositive ==
    /\ ThresholdComputed =>
        /\ time_threshold = GetTimeFilter(now, time_filter)
        /\ time_filter >= 1 =>
            \A H \in Windows \ {0} :
                /\ H >= time_filter => GetTimeFilter(now, H) <= time_threshold
                /\ H <= time_filter => time_threshold <= GetTimeFilter(now, H)
        /\ time_filter = 0 =>
            /\ time_threshold = ReplaceMidnight(AsTimezone(now))
            /\ \A H \in Windows \ {0} :
                GetTimeFilter(now, H) <= time_threshold <=> H >= SinceMidnight(now)
    /\ pc = "fetch_posts" =>
        \A n \in Instants : \A H1, H2 \in Windows \ {0} :
            H1 >= H2 => GetTimeFilter(n, H1) <= GetTimeFilter(n, H2)

\* the threshold of a run with a window of one hour was computed, and a
\* larger window exists
C9_Witness ==
    /\ pc = "resolve"
    /\ time_filter = 1
    /\ \E H \in Windows : H > time_filter
    /\ time_threshold = AsTimezone(now) - 1

====
